---- MODULE Spec2Model ----
(***************************************************************************)
(* mem0/memory/graph_memory.py: MemoryGraph, the per-user knowledge graph  *)
(* kept in a graph store (FalkorDB or Neo4j) and changed by add,           *)
(* delete_all; read by search and get_all.                                 *)
(*                                                                         *)
(* Strings that the code transforms (entity names, entity types,           *)
(* relationship names) are sequences of one-character strings, so that     *)
(* str.lower() and str.replace(" ", "_") are computed character by         *)
(* character.  user_id values are never transformed and are plain strings. *)
(*                                                                         *)
(* The graph store is the property graph the Cypher queries of the source  *)
(* act on: a set of nodes (label, name, user_id, in a logical graph) and a *)
(* bag of directed typed edges between nodes (CREATE can make parallel     *)
(* edges of one type, so edges are counted).                               *)
(***************************************************************************)
EXTENDS Bags, FiniteSets, Integers, Sequences, TLC

VARIABLES
    provider,   \* config.graph_store.provider
    nodes,      \* the nodes of the graph store
    edges,      \* the edges of the graph store, a bag
    lastCall,   \* the last public call: its arguments and its outcome
    io,         \* the inputs and the detailed outcome of the last call
    toolCalls,  \* number of tool calls handed to add so far
    pc,         \* racing callers: position of each inside _update_relationship
    upd,        \* racing callers: the update_graph_memory arguments of each
    log         \* racing callers: the graph queries executed, in order

vars == <<provider, nodes, edges, lastCall, io, toolCalls, pc, upd, log>>

-----------------------------------------------------------------------------
(* Bounds of the model *)

\* the number of tool calls the reconciliation replies of a behaviour hold in all
MaxToolCalls == 4

-----------------------------------------------------------------------------
(* Input alphabets *)

Users == {"u1", "u2"}
Providers == {"falkordb", "neo4j", "memgraph"}

NoLabel == <<>>
DefaultGraph == "default"

-----------------------------------------------------------------------------
(* Python string operations *)

LowerChar(c) ==
    CASE c = "A" -> "a"
      [] c = "B" -> "b"
      [] c = "O" -> "o"
      [] c = "P" -> "p"
      [] c = "Q" -> "q"
      [] c = "R" -> "r"
      [] OTHER -> c

\* str.lower()
lower(s) == [i \in DOMAIN s |-> LowerChar(s[i])]

\* str.replace(old, new) for one-character old and new
replace(s, old, new) == [i \in DOMAIN s |-> IF s[i] = old THEN new ELSE s[i]]

\* x.lower().replace(" ", "_")
Normalize(s) == replace(lower(s), " ", "_")

-----------------------------------------------------------------------------
(* The graph store: what the Cypher clauses of the source do *)

\* graph_query: FalkorDB switches to the graph named by params["user_id"]
\* before the query; any other provider queries the one graph it holds.
SelectGraph(u) == IF provider = "falkordb" THEN u ELSE DefaultGraph

Node(g, label, name, u) == [graph |-> g, label |-> label, name |-> name, user_id |-> u]

Edge(n1, rel, n2) == [src |-> n1, rel |-> rel, dst |-> n2]

\* The nodes matching the pattern (n:label {name: name, user_id: u}) in graph
\* g; with NoLabel the pattern is (n {name: name, user_id: u}), which matches
\* a node whatever its label.
Matches(N, g, label, name, u) ==
    {n \in N : /\ n.graph = g
               /\ n.name = name
               /\ n.user_id = u
               /\ (label = NoLabel \/ n.label = label)}

\* MERGE (n:label {name: name, user_id: u}): creates the node when the
\* pattern matches nothing.
MergeNode(N, g, label, name, u) ==
    IF Matches(N, g, label, name, u) = {}
    THEN N \cup {Node(g, label, name, u)}
    ELSE N

\* A bug the delete query could have: every edge leaving a node of S goes,
\* wherever it leads.
DeleteFromSources(E, S, T) ==
    LET keep == {e \in DOMAIN E : e.src \notin S}
    IN  [e \in keep |-> E[e]]

\* MATCH (n1 ...)-[r]->(n2 ...) DELETE r, for n1 in S and n2 in T: every
\* edge from a node of S to a node of T goes, whatever its type.
DeleteBetween(E, S, T) ==
    LET keep == {e \in DOMAIN E : ~(e.src \in S /\ e.dst \in T)}
    IN  [e \in keep |-> E[e]]

\* MATCH (n1 ...), (n2 ...) CREATE (n1)-[r:rel]->(n2): one new edge for each
\* row of the match, beside the edges already there.
CreateEdges(E, rows, rel) ==
    E (+) SetToBag({Edge(row[1], rel, row[2]) : row \in rows})

\* MERGE (n)-[rel:rel]->(m) for n in S and m in T: an edge is created only
\* between a pair that has no edge of this type yet.
MergeEdges(E, S, T, rel) ==
    E (+) SetToBag({x \in {Edge(n, rel, m) : n \in S, m \in T} : ~BagIn(x, E)})

\* A bug delete_all could have: the match lacks the user_id filter.
DetachDeleteEveryUser(N, E, g, u) ==
    LET gone == {n \in N : n.graph = g}
        keep == {e \in DOMAIN E : e.src \notin gone /\ e.dst \notin gone}
    IN  [nodes |-> N \ gone, edges |-> [e \in keep |-> E[e]]]

\* MATCH (n {user_id: u}) DETACH DELETE n
DetachDelete(N, E, g, u) ==
    LET gone == {n \in N : n.graph = g /\ n.user_id = u}
        keep == {e \in DOMAIN E : e.src \notin gone /\ e.dst \notin gone}
    IN  [nodes |-> N \ gone, edges |-> [e \in keep |-> E[e]]]

\* MATCH (n {user_id: u})-[r]->(m {user_id: u})
\* RETURN n.name AS source, type(r) AS relationship, m.name AS target
\* as a bag of rows: the store fixes no order, and two edges may give the
\* same row.
Triples(N, E, g, u) ==
    LET es == {e \in DOMAIN E : /\ e.src \in N /\ e.dst \in N
                                /\ e.src.graph = g /\ e.dst.graph = g
                                /\ e.src.user_id = u /\ e.dst.user_id = u}
        row(e) == [source |-> e.src.name, relationship |-> e.rel, target |-> e.dst.name]
        T == {row(e) : e \in es}
    IN  [t \in T |-> BagCardinality([e \in {x \in es : row(x) = t} |-> E[e]])]

-----------------------------------------------------------------------------
(* MemoryGraph: the helpers of add *)

Supported == {"falkordb", "neo4j"}

\* One tool call of the reconciliation LLM reply.  The arguments an
\* update_graph_memory call does not have (the two types) are NoLabel.
Decision(kind, s, st, r, d, dt) ==
    [name |-> kind,
     arguments |-> [source |-> s, source_type |-> st, relationship |-> r,
                    destination |-> d, destination_type |-> dt]]

\* _update_relationship, first query: MERGE (n1 {name: $source, ...})
\* MERGE (n2 {name: $target, ...}); source and target are used as given.
UpdateMerge(N, g, u, source, target) ==
    MergeNode(MergeNode(N, g, NoLabel, source, u), g, NoLabel, target, u)

\* A bug _update_relationship could have: the delete query is left out.
UpdateKeepsEdges(N, E, g, u, source, target) == E

\* _update_relationship, second query: delete every edge from a node named
\* source to a node named target.
UpdateDelete(N, E, g, u, source, target) ==
    DeleteBetween(E, Matches(N, g, NoLabel, source, u), Matches(N, g, NoLabel, target, u))

\* _update_relationship, third query: the rows MATCH (n1 ...), (n2 ...) gives.
\* replied is the store's answer to the query: FALSE when it answers with
\* no rows (the match found no pair).
UpdateRows(N, g, u, source, target, replied) ==
    IF replied
    THEN Matches(N, g, NoLabel, source, u) \X Matches(N, g, NoLabel, target, u)
    ELSE {}

\* _update_relationship(source, target, relationship, filters) on the graph
\* G = [nodes, edges]; raised is the exception of line 355.
UpdateRelationship(G, u, source, target, relationship, replied) ==
    LET g == SelectGraph(u)
        rel == Normalize(relationship)
        N1 == UpdateMerge(G.nodes, g, u, source, target)
        E1 == UpdateDelete(N1, G.edges, g, u, source, target)
        rows == UpdateRows(N1, g, u, source, target, replied)
    IN  [nodes |-> N1, edges |-> CreateEdges(E1, rows, rel), raised |-> rows = {}]

\* add, lines 89-100: the loop over the tool calls from position i on.
\* buf is to_be_added; failAt is the position of the update whose create
\* query the store answers with no rows (0: none).
RECURSIVE ProcessToolCalls(_, _, _, _, _, _)
ProcessToolCalls(G, u, ds, i, failAt, buf) ==
    IF i > Len(ds)
    THEN [nodes |-> G.nodes, edges |-> G.edges, raised |-> FALSE,
          to_be_added |-> buf, updates |-> 0]
    ELSE LET item == ds[i] IN
         IF item.name = "add_graph_memory"
         THEN ProcessToolCalls(G, u, ds, i + 1, failAt, Append(buf, item.arguments))
         ELSE IF item.name = "update_graph_memory"
         THEN LET r == UpdateRelationship(G, u, item.arguments.source,
                                          item.arguments.destination,
                                          item.arguments.relationship, i # failAt)
              IN  IF r.raised
                  THEN [nodes |-> r.nodes, edges |-> r.edges, raised |-> TRUE,
                        to_be_added |-> buf, updates |-> 1]
                  ELSE LET rest == ProcessToolCalls([nodes |-> r.nodes, edges |-> r.edges],
                                                    u, ds, i + 1, failAt, buf)
                       IN  [rest EXCEPT !.updates = @ + 1]
         ELSE ProcessToolCalls(G, u, ds, i + 1, failAt, buf)

\* A bug add could have: the returned triple holds the names as given.
ReturnedEntityAsGiven(item) ==
    [source |-> item.source, relationship |-> item.relationship, target |-> item.destination]

\* add, lines 105-111: the triple returned for one buffered addition.
ReturnedEntity(item) ==
    [source |-> Normalize(item.source),
     relationship |-> Normalize(item.relationship),
     target |-> Normalize(item.destination)]

\* add, lines 105-138: one buffered addition written to the graph.
WriteAddition(G, u, item) ==
    LET g == SelectGraph(u)
        source == Normalize(item.source)
        source_type == Normalize(item.source_type)
        relation == Normalize(item.relationship)
        destination == Normalize(item.destination)
        destination_type == Normalize(item.destination_type)
        N1 == MergeNode(G.nodes, g, source_type, source, u)
        N2 == MergeNode(N1, g, destination_type, destination, u)
    IN  [nodes |-> N2,
         edges |-> MergeEdges(G.edges, Matches(N2, g, source_type, source, u),
                              Matches(N2, g, destination_type, destination, u), relation)]

\* add, lines 104-138: the loop over to_be_added from position i on.
RECURSIVE WriteAdditions(_, _, _, _)
WriteAdditions(G, u, buf, i) ==
    IF i > Len(buf) THEN G
    ELSE WriteAdditions(WriteAddition(G, u, buf[i]), u, buf, i + 1)

\* add, lines 102-111 and 142: returned_entities.
ReturnedEntities(buf) == [i \in DOMAIN buf |-> ReturnedEntity(buf[i])]

\* _search, lines 171-188: with at least one extracted entity an unsupported
\* provider raises ValueError before the first similarity query; with none
\* the loop body never runs.
SearchRaises(nEntities) == nEntities > 0 /\ provider \notin Supported

-----------------------------------------------------------------------------
(* MemoryGraph: the public operations *)

NoDecisions == <<>>

\* The outcome of a public call: how it ended, and the rows a read got from
\* the store.
Call(op, u, status, rows) == [op |-> op, user_id |-> u, status |-> status, rows |-> rows]

\* The inputs and the detailed outcome of a call: the number of entities the
\* extraction gave, the tool calls of the reconciliation reply, the position
\* of the update whose create query the store answered with no rows
\* (0: none), the list the call returned and the number of graph queries it
\* ran.
IO(n, ds, failAt, ret, queries) ==
    [entities |-> n, decisions |-> ds, failAt |-> failAt, ret |-> ret, queries |-> queries]

NoIO == IO(0, NoDecisions, 0, <<>>, 0)

\* The parameters the get_all query refers to ($user_id, $limit), and those
\* get_all passes to graph_query.
GetAllQueryParams == {"user_id", "limit"}
GetAllGivenParams == {"user_id"}

\* The graph store runs a query only when every parameter it refers to is
\* bound; otherwise it answers with an error, which graph_query lets through.
QueryRuns(refers, given) == refers \subseteq given

\* A bug add could have: the buffered additions are written although an
\* update raised.
AddResultFlushesOnAbort(G, u, n, ds, failAt) ==
    IF SearchRaises(n)
    THEN [nodes |-> G.nodes, edges |-> G.edges, status |-> "ValueError", ret |-> <<>>,
          queries |-> 0]
    ELSE LET p == ProcessToolCalls(G, u, ds, 1, failAt, <<>>)
             w == WriteAdditions([nodes |-> p.nodes, edges |-> p.edges], u, p.to_be_added, 1)
         IN  [nodes |-> w.nodes, edges |-> w.edges,
              status |-> IF p.raised THEN "Exception" ELSE "ok",
              ret |-> IF p.raised THEN <<>> ELSE ReturnedEntities(p.to_be_added),
              queries |-> n + 3 * p.updates + Len(p.to_be_added)]

\* add(data, filters) on the graph G: the new graph, how the call ended, what
\* it returned and the number of graph queries it ran.
AddResult(G, u, n, ds, failAt) ==
    IF SearchRaises(n)
    THEN [nodes |-> G.nodes, edges |-> G.edges, status |-> "ValueError", ret |-> <<>>,
          queries |-> 0]
    ELSE LET p == ProcessToolCalls(G, u, ds, 1, failAt, <<>>)
         IN  IF p.raised
             THEN [nodes |-> p.nodes, edges |-> p.edges, status |-> "Exception",
                   ret |-> <<>>, queries |-> n + 3 * p.updates]
             ELSE LET w == WriteAdditions([nodes |-> p.nodes, edges |-> p.edges],
                                          u, p.to_be_added, 1)
                  IN  [nodes |-> w.nodes, edges |-> w.edges, status |-> "ok",
                       ret |-> ReturnedEntities(p.to_be_added),
                       queries |-> n + 3 * p.updates + Len(p.to_be_added)]

\* keep says whether the call's inputs and detailed outcome stay visible in
\* io, for the properties that speak of them.
Add(u, n, ds, failAt, keep) ==
    LET r == AddResult([nodes |-> nodes, edges |-> edges], u, n, ds, failAt)
    IN  /\ toolCalls + Len(ds) <= MaxToolCalls
        /\ toolCalls' = toolCalls + Len(ds)
        /\ nodes' = r.nodes
        /\ edges' = r.edges
        /\ lastCall' = Call("add", u, r.status, EmptyBag)
        /\ io' = IF keep THEN IO(n, ds, failAt, r.ret, r.queries) ELSE NoIO
        /\ UNCHANGED <<provider, pc, upd, log>>

\* search(query, filters): every entity's similarity query gives the user's
\* triples (found) or nothing.  Which triples the reranker scores best is
\* decided by the embeddings and BM25 and is left out: rows holds the
\* candidates of one entity's query.
SearchResult(u, n, found) ==
    IF SearchRaises(n)
    THEN [status |-> "ValueError", rows |-> EmptyBag, queries |-> 0]
    ELSE [status |-> "ok",
          rows |-> IF found /\ n > 0 THEN Triples(nodes, edges, SelectGraph(u), u)
                   ELSE EmptyBag,
          queries |-> n]

Search(u, n, found, keep) ==
    LET r == SearchResult(u, n, found)
    IN  /\ lastCall' = Call("search", u, r.status, r.rows)
        /\ io' = IF keep THEN IO(n, NoDecisions, 0, <<>>, r.queries) ELSE NoIO
        /\ UNCHANGED <<provider, nodes, edges, toolCalls, pc, upd, log>>

\* delete_all(filters)
DeleteAll(u) ==
    LET d == DetachDelete(nodes, edges, SelectGraph(u), u)
    IN  /\ nodes' = d.nodes
        /\ edges' = d.edges
        /\ lastCall' = Call("delete_all", u, "ok", EmptyBag)
        /\ io' = NoIO
        /\ UNCHANGED <<provider, toolCalls, pc, upd, log>>

\* get_all(filters)
GetAllResult(u) ==
    IF QueryRuns(GetAllQueryParams, GetAllGivenParams)
    THEN Call("get_all", u, "ok", Triples(nodes, edges, SelectGraph(u), u))
    ELSE Call("get_all", u, "QueryError", EmptyBag)

GetAll(u) ==
    /\ lastCall' = GetAllResult(u)
    /\ io' = NoIO
    /\ UNCHANGED <<provider, nodes, edges, toolCalls, pc, upd, log>>

-----------------------------------------------------------------------------
(* Inputs *)

\* update_graph_memory tool calls from the sources srcs to the destinations dsts
Updates(srcs, rels, dsts) ==
    {Decision("update_graph_memory", s, NoLabel, r, d, NoLabel) :
        s \in srcs, r \in rels, d \in dsts}

\* add_graph_memory tool calls
Additions(srcs, stypes, rels, dsts, dtypes) ==
    {Decision("add_graph_memory", a[1], a[2], r, a[3], a[4]) :
        a \in srcs \X stypes \X dsts \X dtypes, r \in rels}

Noop == Decision("noop", <<>>, NoLabel, <<>>, <<>>, NoLabel)

\* The tool call lists an add call can still be handed
Lists(D) == UNION {[1..k -> D] : k \in 0..(MaxToolCalls - toolCalls)}

FailPositions(ds) == {0} \cup {i \in DOMAIN ds : ds[i].name = "update_graph_memory"}

\* The extraction gave no entity, or one
EntityCounts == 0..1

NoCall == Call("none", "", "ok", EmptyBag)

\* After __init__: the configuration is stored, the graph is empty.
Init ==
    /\ provider \in Providers
    /\ nodes = {}
    /\ edges = EmptyBag
    /\ lastCall = NoCall
    /\ io = NoIO
    /\ toolCalls = 0
    /\ pc = <<>>
    /\ upd = <<>>
    /\ log = <<>>

-----------------------------------------------------------------------------
(* Spec: one caller at a time, all four operations, two users, every       *)
(* provider, with and without extracted entities.                          *)

AllOpsToolCalls ==
    Updates({<<"a">>}, {<<"r">>}, {<<"b">>})
    \cup Additions({<<"a">>}, {<<"p">>}, {<<"r">>}, {<<"b">>}, {<<"p">>})
    \cup {Noop}

AddCall == \E u \in Users, n \in EntityCounts, ds \in Lists(AllOpsToolCalls) :
               \E f \in FailPositions(ds) : Add(u, n, ds, f, FALSE)

SearchCall == \E u \in Users, n \in EntityCounts, found \in BOOLEAN :
                  Search(u, n, found, FALSE)

DeleteAllCall == \E u \in Users : DeleteAll(u)

GetAllCall == \E u \in Users : GetAll(u)

Next == AddCall \/ SearchCall \/ DeleteAllCall \/ GetAllCall

Spec == Init /\ [][Next]_vars

-----------------------------------------------------------------------------
(* SpecTypes: add calls of one user whose tool calls carry names, types and *)
(* a relationship that are not normalized, and two types for one entity.    *)

TypesToolCalls ==
    Updates({<<"a">>, <<"B", " ">>}, {<<"R", " ">>}, {<<"B", " ">>})
    \cup Additions({<<"a">>}, {<<"p">>, <<"O", " ">>}, {<<"R", " ">>}, {<<"B", " ">>}, {<<"p">>})
    \cup {Noop}

AddTypesCall == \E ds \in Lists(TypesToolCalls) :
                    \E f \in FailPositions(ds) : Add("u1", 1, ds, f, TRUE)

SpecTypes == Init /\ [][AddTypesCall]_vars

(* SpecUpdates: add calls of one user over an entity a and two others, b    *)
(* and c, with two relationships: the "works_at acme / beta" scenario.      *)

UpdatesToolCalls ==
    Updates({<<"a">>}, {<<"r">>, <<"q">>}, {<<"b">>, <<"c">>})
    \cup Additions({<<"a">>}, {<<"p">>}, {<<"r">>}, {<<"b">>}, {<<"p">>})
    \cup {Noop}

AddUpdatesCall == \E ds \in Lists(UpdatesToolCalls) :
                      \E f \in FailPositions(ds) : Add("u1", 1, ds, f, TRUE)

SpecUpdates == Init /\ [][AddUpdatesCall]_vars

(* SpecProvider: add and search under every provider, with and without     *)
(* extracted entities.                                                      *)

ProviderToolCalls ==
    Updates({<<"a">>}, {<<"r">>}, {<<"b">>})
    \cup Additions({<<"a">>}, {<<"p">>}, {<<"r">>}, {<<"b">>}, {<<"p">>})
    \cup {Noop}

AddProviderCall == \E n \in EntityCounts, ds \in Lists(ProviderToolCalls) :
                       \E f \in FailPositions(ds) : Add("u1", n, ds, f, TRUE)

SearchProviderCall == \E n \in EntityCounts, found \in BOOLEAN : Search("u1", n, found, TRUE)

SpecProvider == Init /\ [][AddProviderCall \/ SearchProviderCall]_vars

-----------------------------------------------------------------------------
(* Properties of the single-caller specifications *)

UpperChars == {"A", "B", "O", "P", "Q", "R"}

\* lowercase and free of spaces
IsNormalized(s) == \A i \in DOMAIN s : s[i] # " " /\ s[i] \notin UpperChars

\* The rows the query of get_all matches for user u in the current graph
Rows(u) == Triples(nodes, edges, SelectGraph(u), u)

IsAddition(d) == d.name = "add_graph_memory"

IsUpdate(d) == d.name = "update_graph_memory"

\* C1: after any sequence of add calls of one caller, the graph of a user
\* holds at most one edge of a given type between a given ordered pair of
\* entity names: the query of get_all matches no (source, relationship,
\* target) triple twice.
C1_OneEdgePerTypeAndPair ==
    \A u \in Users : \A t \in DOMAIN Rows(u) : Rows(u)[t] = 1

\* C4: every node name, node label and relationship type that add has
\* written is lowercase and free of spaces, on the add_graph_memory path and
\* on the update_graph_memory path alike.
C4_WrittenNamesNormalized ==
    /\ \A n \in nodes : IsNormalized(n.name) /\ IsNormalized(n.label)
    /\ \A e \in DOMAIN edges : IsNormalized(e.rel)

\* C5: the graph holds at most one node for each (name, user_id), whatever
\* the entity types it was written with and whichever path created it.
C5_OneNodePerNameAndUser ==
    \A n1, n2 \in nodes :
        (n1.name = n2.name /\ n1.user_id = n2.user_id) => n1 = n2

\* C6: a successful add call returns exactly one triple per add_graph_memory
\* tool call, in the order of the tool calls and with normalized names;
\* update_graph_memory and noop tool calls contribute nothing.
C6_ReturnsTheAdditions ==
    (lastCall.op = "add" /\ lastCall.status = "ok") =>
        LET additions == SelectSeq(io.decisions, IsAddition)
        IN  /\ Len(io.ret) = Len(additions)
            /\ \A i \in DOMAIN additions :
                   /\ io.ret[i].source = Normalize(additions[i].arguments.source)
                   /\ io.ret[i].relationship = Normalize(additions[i].arguments.relationship)
                   /\ io.ret[i].target = Normalize(additions[i].arguments.destination)
                   /\ IsNormalized(io.ret[i].source)
                   /\ IsNormalized(io.ret[i].relationship)
                   /\ IsNormalized(io.ret[i].target)

\* A successful call whose tool calls are an update and then an addition with
\* names that are not normalized: one triple comes back, normalized, and the
\* update changed the graph.
C6_Witness ==
    /\ lastCall.op = "add" /\ lastCall.status = "ok"
    /\ Len(io.decisions) = 2
    /\ IsUpdate(io.decisions[1]) /\ IsAddition(io.decisions[2])
    /\ Len(io.ret) = 1
    /\ io.ret[1].target # io.decisions[2].arguments.destination
    /\ \E n \in nodes : n.label = NoLabel

\* The update_graph_memory tool calls among ds[i..k-1], applied in order
RECURSIVE UpdatesApplied(_, _, _, _, _)
UpdatesApplied(G, u, ds, i, k) ==
    IF i >= k THEN G
    ELSE IF IsUpdate(ds[i])
         THEN LET r == UpdateRelationship(G, u, ds[i].arguments.source,
                                          ds[i].arguments.destination,
                                          ds[i].arguments.relationship, TRUE)
              IN  UpdatesApplied([nodes |-> r.nodes, edges |-> r.edges], u, ds, i + 1, k)
         ELSE UpdatesApplied(G, u, ds, i + 1, k)

\* C7: when the create query of the update at position k answers with no
\* rows, add ends with an error and rolls nothing back: the graph is the one
\* before the call with the updates before k applied and with the node
\* creation and the edge deletion of update k; no later tool call is applied
\* and no buffered addition (before or after k) is written.
C7_AbortKeepsPartialWrites ==
    [][(lastCall'.op = "add" /\ lastCall'.status = "Exception") =>
        LET ds == io'.decisions
            k == io'.failAt
            u == lastCall'.user_id
            g == SelectGraph(u)
            G == UpdatesApplied([nodes |-> nodes, edges |-> edges], u, ds, 1, k)
            src == ds[k].arguments.source
            dst == ds[k].arguments.destination
            N == UpdateMerge(G.nodes, g, u, src, dst)
        IN  /\ k \in DOMAIN ds /\ IsUpdate(ds[k])
            /\ nodes' = N
            /\ edges' = UpdateDelete(N, G.edges, g, u, src, dst)
            /\ nodes \subseteq nodes'
            /\ \A n \in nodes' \ nodes : n.label = NoLabel
            /\ Matches(nodes', g, NoLabel, src, u) # {}
            /\ Matches(nodes', g, NoLabel, dst, u) # {}
            /\ \A e \in DOMAIN edges' : ~(e.src.name = src /\ e.dst.name = dst)
            /\ io'.ret = <<>>]_vars

\* An aborted call of four tool calls: an addition, an update that went
\* through, the failing update, another addition.  The first update's edge
\* is in the graph, the failing update's nodes are, no edge joins them, and
\* no node of the additions (which are labelled) was written.
C7_Witness ==
    /\ lastCall.op = "add" /\ lastCall.status = "Exception"
    /\ Len(io.decisions) = 4 /\ io.failAt = 3
    /\ IsAddition(io.decisions[1]) /\ IsUpdate(io.decisions[2])
    /\ IsUpdate(io.decisions[3]) /\ IsAddition(io.decisions[4])
    /\ io.decisions[2].arguments.destination # io.decisions[3].arguments.destination
    /\ \E e \in DOMAIN edges : e.dst.name = io.decisions[2].arguments.destination
    /\ \E n \in nodes : n.name = io.decisions[3].arguments.destination
    /\ \A e \in DOMAIN edges : e.dst.name # io.decisions[3].arguments.destination
    /\ \A n \in nodes : n.label = NoLabel

\* The rows the query of get_all matches for user u in the graph (N, E)
RowsIn(N, E, u) == Triples(N, E, SelectGraph(u), u)

Count(B, x) == IF x \in DOMAIN B THEN B[x] ELSE 0

\* An update tool call of ds other than the one at position i, from i0 on,
\* names the pair (source s, destination t)
NamedAgain(ds, i0, i, s, t) ==
    \E j \in DOMAIN ds :
        /\ j >= i0 /\ j # i /\ IsUpdate(ds[j])
        /\ ds[j].arguments.source = s /\ ds[j].arguments.destination = t

\* C2 as stated: when the graph of u holds s -[r]-> t_old and an add call
\* applies the update (s, r, t_new) with t_new # t_old, then after the call
\* exactly one edge of type r leaves s, and it goes to t_new.
C2_UpdateReplacesTarget ==
    [][(lastCall'.op = "add" /\ lastCall'.status = "ok") =>
        LET u == lastCall'.user_id
            before == RowsIn(nodes, edges, u)
            after == RowsIn(nodes', edges', u)
        IN  \A i \in DOMAIN io'.decisions :
                LET a == io'.decisions[i].arguments
                    r == Normalize(a.relationship)
                    old == {t \in DOMAIN before : /\ t.source = a.source
                                                  /\ t.relationship = r
                                                  /\ t.target # a.destination}
                    now == {t \in DOMAIN after : t.source = a.source /\ t.relationship = r}
                IN  (IsUpdate(io'.decisions[i]) /\ old # {}) =>
                        /\ now = {[source |-> a.source, relationship |-> r,
                                   target |-> a.destination]}
                        /\ \A t \in now : after[t] = 1]_vars

\* C2 as amended: the update replaces only the edges between s and t_new.
\* After an add call that ended without error and applied the update
\* (s, r, t_new), the graph of u holds an edge of type r from s to t_new
\* (unless a later update of the call names the same pair), and every edge
\* s -[r]-> t_old with t_old # t_new that it held before is still there
\* (unless an update of the call names the pair (s, t_old)).
C2_UpdateKeepsOtherTargets ==
    [][(lastCall'.op = "add" /\ lastCall'.status = "ok") =>
        LET u == lastCall'.user_id
            ds == io'.decisions
            before == RowsIn(nodes, edges, u)
            after == RowsIn(nodes', edges', u)
        IN  \A i \in DOMAIN ds :
                LET a == ds[i].arguments
                    r == Normalize(a.relationship)
                IN  IsUpdate(ds[i]) =>
                        /\ NamedAgain(ds, i + 1, i, a.source, a.destination)
                           \/ Count(after, [source |-> a.source, relationship |-> r,
                                            target |-> a.destination]) >= 1
                        /\ \A t \in DOMAIN before :
                               (/\ t.source = a.source
                                /\ t.relationship = r
                                /\ t.target # a.destination
                                /\ ~NamedAgain(ds, 1, i, a.source, t.target))
                               => Count(after, t) >= before[t]]_vars

\* After an add call whose only tool call is the update (s, r, t_new), the
\* graph holds s -[r]-> t_new and still holds s -[r]-> t_old, t_old # t_new.
C2_Witness ==
    /\ lastCall.op = "add" /\ lastCall.status = "ok"
    /\ Len(io.decisions) = 1 /\ IsUpdate(io.decisions[1])
    /\ LET a == io.decisions[1].arguments
           r == Normalize(a.relationship)
       IN  /\ [source |-> a.source, relationship |-> r, target |-> a.destination]
                  \in DOMAIN Rows(lastCall.user_id)
           /\ \E t \in DOMAIN Rows(lastCall.user_id) :
                  t.source = a.source /\ t.relationship = r /\ t.target # a.destination

\* C3: delete_all({user_id: u}) followed directly by get_all({user_id: u})
\* returns the empty list.
C3_GetAllEmptyAfterDeleteAll ==
    lastCall.op = "delete_all" =>
        /\ GetAllResult(lastCall.user_id).status = "ok"
        /\ GetAllResult(lastCall.user_id).rows = EmptyBag

OtherNodes(N, u) == {n \in N : n.user_id # u}

OtherEdges(E, u) ==
    LET keep == {e \in DOMAIN E : e.src.user_id # u /\ e.dst.user_id # u}
    IN  [e \in keep |-> E[e]]

\* C8: an add call or a delete_all call made for user u leaves unchanged
\* every node whose user_id differs from u and every edge between such
\* nodes, so the query of get_all matches the same rows for every other user
\* before and after the call.
C8_PerUserIsolation ==
    [][lastCall'.op \in {"add", "delete_all"} =>
        LET u == lastCall'.user_id
        IN  /\ OtherNodes(nodes', u) = OtherNodes(nodes, u)
            /\ OtherEdges(edges', u) = OtherEdges(edges, u)
            /\ \A v \in Users \ {u} :
                   RowsIn(nodes', edges', v) = RowsIn(nodes, edges, v)]_vars

\* Under Neo4j, where the users share one graph: a delete_all emptied the
\* part of its user, and the other user still has edges.
C8_Witness ==
    /\ provider = "neo4j"
    /\ lastCall.op = "delete_all"
    /\ Rows(lastCall.user_id) = EmptyBag
    /\ \E v \in Users \ {lastCall.user_id} : Rows(v) # EmptyBag

\* C9: with a provider that is neither "falkordb" nor "neo4j", every add
\* call and every search call ends with the ValueError, before any graph
\* query and before any change of the graph, whatever the extraction gave.
C9_UnsupportedProviderFailsFast ==
    (provider \notin Supported /\ lastCall.op \in {"add", "search"}) =>
        /\ lastCall.status = "ValueError"
        /\ io.queries = 0
        /\ nodes = {} /\ edges = EmptyBag

-----------------------------------------------------------------------------
(* SpecRace: two add calls for one user run at the same time.  The          *)
(* reconciliation reply of each holds one update_graph_memory tool call,    *)
(* both on the pair (a, b); the three graph queries of their                *)
(* _update_relationship steps interleave.  The race starts on a graph that  *)
(* an earlier add call of the user left.                                    *)

Callers == {"A", "B"}

RaceUser == "u1"

RaceUpdates == Updates({<<"a">>}, {<<"r">>, <<"q">>}, {<<"b">>})

RacePriorToolCalls ==
    Additions({<<"a">>}, {<<"p">>, <<"o">>}, {<<"r">>}, {<<"b">>}, {<<"p">>})

RaceInit ==
    /\ provider \in Providers
    /\ \E k \in 0..MaxToolCalls : \E ds \in [1..k -> RacePriorToolCalls] :
           LET r == AddResult([nodes |-> {}, edges |-> EmptyBag], RaceUser, 0, ds, 0)
           IN  /\ nodes = r.nodes
               /\ edges = r.edges
               /\ toolCalls = Len(ds)
    /\ lastCall = Call("add", RaceUser, "ok", EmptyBag)
    /\ io = NoIO
    /\ pc = [c \in Callers |-> "merge"]
    /\ upd \in [Callers -> RaceUpdates]
    /\ log = <<>>

\* _update_relationship of caller c, lines 324-331
RaceMerge(c) ==
    /\ pc[c] = "merge"
    /\ nodes' = UpdateMerge(nodes, SelectGraph(RaceUser), RaceUser,
                            upd[c].arguments.source, upd[c].arguments.destination)
    /\ pc' = [pc EXCEPT ![c] = "delete"]
    /\ log' = Append(log, <<c, "merge">>)
    /\ UNCHANGED <<provider, edges, lastCall, io, toolCalls, upd>>

\* _update_relationship of caller c, lines 334-341
RaceDelete(c) ==
    /\ pc[c] = "delete"
    /\ edges' = UpdateDelete(nodes, edges, SelectGraph(RaceUser), RaceUser,
                             upd[c].arguments.source, upd[c].arguments.destination)
    /\ pc' = [pc EXCEPT ![c] = "create"]
    /\ log' = Append(log, <<c, "delete">>)
    /\ UNCHANGED <<provider, nodes, lastCall, io, toolCalls, upd>>

\* _update_relationship of caller c, lines 344-355; add then returns, its
\* to_be_added being empty.
RaceCreate(c) ==
    LET rows == UpdateRows(nodes, SelectGraph(RaceUser), RaceUser,
                           upd[c].arguments.source, upd[c].arguments.destination, TRUE)
    IN  /\ pc[c] = "create"
        /\ edges' = CreateEdges(edges, rows, Normalize(upd[c].arguments.relationship))
        /\ pc' = [pc EXCEPT ![c] = IF rows = {} THEN "raised" ELSE "done"]
        /\ log' = Append(log, <<c, "create">>)
        /\ UNCHANGED <<provider, nodes, lastCall, io, toolCalls, upd>>

RaceNext == \E c \in Callers : RaceMerge(c) \/ RaceDelete(c) \/ RaceCreate(c)

SpecRace == RaceInit /\ [][RaceNext]_vars

\* The edges from a node named s to a node named t, of RaceUser
Between(s, t) ==
    LET S == Matches(nodes, SelectGraph(RaceUser), NoLabel, s, RaceUser)
        T == Matches(nodes, SelectGraph(RaceUser), NoLabel, t, RaceUser)
        in == {e \in DOMAIN edges : e.src \in S /\ e.dst \in T}
    IN  [e \in in |-> edges[e]]

\* The edges the create query of caller c makes: one of its type for each
\* pair of a node named like its source and a node named like its destination
Created(c) ==
    SetToBag({Edge(row[1], Normalize(upd[c].arguments.relationship), row[2]) :
                 row \in UpdateRows(nodes, SelectGraph(RaceUser), RaceUser,
                                    upd[c].arguments.source,
                                    upd[c].arguments.destination, TRUE)})

RaceOver == \A c \in Callers : pc[c] \in {"done", "raised"}

Position(c, step) == CHOOSE i \in DOMAIN log : log[i] = <<c, step>>

LastOf(step) ==
    CHOOSE c \in Callers : \A d \in Callers : Position(d, step) <= Position(c, step)

\* C10 as stated: however the queries of the two updates interleave, the
\* final graph holds between the pair only the edge of the update whose
\* create query ran last.
C10_LastCreateWins ==
    RaceOver => Between(<<"a">>, <<"b">>) = Created(LastOf("create"))

RECURSIVE CreatedByAll(_)
CreatedByAll(C) ==
    IF C = {} THEN EmptyBag
    ELSE LET c == CHOOSE x \in C : TRUE IN Created(c) (+) CreatedByAll(C \ {c})

\* C10 as amended: the final graph holds between the pair exactly the edges
\* of the create queries that ran after the last delete query: always the
\* edge of the update whose create ran last, and the edge of the other
\* update too when both delete queries ran before both create queries.
C10_CreatesAfterLastDeleteStay ==
    RaceOver =>
        LET lastDelete == Position(LastOf("delete"), "delete")
            late == {c \in Callers : Position(c, "create") > lastDelete}
        IN  /\ \A c \in Callers : pc[c] = "done"
            /\ LastOf("create") \in late
            /\ Between(<<"a">>, <<"b">>) = CreatedByAll(late)

\* Both updates are through, the pair had an edge before the race, and the
\* edges of both updates, of different types, are in the graph.
C10_Witness ==
    /\ RaceOver
    /\ toolCalls > 0
    /\ upd["A"].arguments.relationship # upd["B"].arguments.relationship
    /\ \A c \in Callers :
           \E e \in DOMAIN edges : e.rel = Normalize(upd[c].arguments.relationship)
    /\ BagCardinality(Between(<<"a">>, <<"b">>)) >= 2

====
